---- MODULE Spec2Model ----
(***************************************************************************)
(* The tabular result interpretation helpers of src/src/App.js: toNumber,  *)
(* monthIndex, isTimeLikeAxis, resolveAxes, pivotData and renderChart, and *)
(* the history and the feedback of the App component.                      *)
(*                                                                         *)
(* JavaScript values are tagged records: a string is [t |-> "string",      *)
(* s |-> text], a finite number is the exact decimal m / 10^e (normalised: *)
(* e = 0 or m not divisible by 10), and NaN, Infinity, null, undefined and *)
(* booleans have a tag of their own.  Texts are TLA+ strings, read one     *)
(* character at a time with SubSeq.                                        *)
(***************************************************************************)
EXTENDS Integers, Sequences, FiniteSets, TLC

VARIABLES fn, args, ret, app

vars == <<fn, args, ret, app>>

(***************************************************************************)
(* JavaScript values                                                       *)
(***************************************************************************)
Str(s) == [t |-> "string", s |-> s]
Num(m, e) == [t |-> "number", m |-> m, e |-> e]
IntNum(n) == Num(n, 0)
NaN == [t |-> "NaN"]
PosInf == [t |-> "Infinity"]
Null == [t |-> "null"]
Undefined == [t |-> "undefined"]
Bool(b) == [t |-> "boolean", b |-> b]
\* the value of ret while the call has not returned
Pending == [t |-> "pending"]
\* the value of app while no App component is mounted: the calls of the
\* functions above the component do not touch its state
NoApp == [t |-> "unmounted"]

IsString(v) == v.t = "string"
\* typeof v === 'number'
IsNumberType(v) == v.t \in {"number", "NaN", "Infinity"}
\* Number.isFinite(v)
IsFinite(v) == v.t = "number"

(***************************************************************************)
(* Characters and texts                                                    *)
(***************************************************************************)
Char(s, i) == SubSeq(s, i, i)

DigitChars == "0123456789"
UpperAZ == "ABCDEFGHIJKLMNOPQRSTUVWXYZ"
LowerAZ == "abcdefghijklmnopqrstuvwxyz"

CharSet(s) == {Char(s, i) : i \in 1..Len(s)}
DigitSet == CharSet(DigitChars)
UpperSet == CharSet(UpperAZ)
LowerSet == CharSet(LowerAZ)
\* the whitespace characters the model's texts use (\s)
SpaceSet == {" "}

IsDigit(c) == c \in DigitSet
LetterSet == UpperSet \cup LowerSet
IsLetter(c) == c \in LetterSet
IsSpace(c) == c \in SpaceSet

IndexIn(s, c) == CHOOSE i \in 1..Len(s) : Char(s, i) = c

DigitValue(c) == IndexIn(DigitChars, c) - 1

LowerOfUpper == [c \in UpperSet |-> Char(LowerAZ, IndexIn(UpperAZ, c))]

LowerChar(c) == IF c \in UpperSet THEN LowerOfUpper[c] ELSE c

\* two characters are equal under the i flag
SameCharI(a, b) == a = b \/ LowerChar(a) = LowerChar(b)

\* String.prototype.toLowerCase
RECURSIVE toLowerCase(_)
toLowerCase(s) ==
    IF s = "" THEN "" ELSE LowerChar(Char(s, 1)) \o toLowerCase(Tail(s))

\* s.replace(/[^...]/g, ''): the characters of s that are in keep, in order
KeepChars(s, keep) ==
    LET kept[i \in 0..Len(s)] ==
            IF i = 0 THEN ""
            ELSE kept[i - 1] \o (IF Char(s, i) \in keep THEN Char(s, i) ELSE "")
    IN  kept[Len(s)]

\* s.replace(/[...]/g, ''): the characters of s that are not in drop, in order
DropChars(s, drop) ==
    LET kept[i \in 0..Len(s)] ==
            IF i = 0 THEN ""
            ELSE kept[i - 1] \o (IF Char(s, i) \in drop THEN "" ELSE Char(s, i))
    IN  kept[Len(s)]

\* String.prototype.slice(from, to) with 0 <= from <= to
slice(s, from, to) == SubSeq(s, from + 1, IF to < Len(s) THEN to ELSE Len(s))

AllChars(s, class) == \A i \in 1..Len(s) : Char(s, i) \in class

\* parseInt(s, 10) of a text of digits
RECURSIVE parseInt(_)
parseInt(s) ==
    IF s = "" THEN 0
    ELSE parseInt(SubSeq(s, 1, Len(s) - 1)) * 10 + DigitValue(Char(s, Len(s)))

\* String.prototype.trim
NoTrim(s) == s

RECURSIVE TrimStart(_)
TrimStart(s) ==
    IF s # "" /\ IsSpace(Char(s, 1)) THEN TrimStart(Tail(s)) ELSE s

RECURSIVE TrimEnd(_)
TrimEnd(s) ==
    IF s # "" /\ IsSpace(Char(s, Len(s)))
    THEN TrimEnd(SubSeq(s, 1, Len(s) - 1)) ELSE s

trim(s) == TrimEnd(TrimStart(s))

\* length of the longest prefix of s whose characters are in class
PrefixLen(s, class) ==
    IF \A i \in 1..Len(s) : Char(s, i) \in class THEN Len(s)
    ELSE (CHOOSE i \in 1..Len(s) :
            Char(s, i) \notin class /\ \A j \in 1..(i - 1) : Char(s, j) \in class) - 1

\* s without that prefix
AfterPrefix(s, class) == SubSeq(s, PrefixLen(s, class) + 1, Len(s))

(***************************************************************************)
(* Number(text) for a text of digits, periods and minus signs              *)
(***************************************************************************)
\* the decimal m / 10^e, normalised
RECURSIVE Normalised(_, _)
Normalised(m, e) ==
    IF e > 0 /\ m % 10 = 0 THEN Normalised(m \div 10, e - 1) ELSE Num(m, e)

\* StrDecimalLiteral without exponent: digits, optionally one period
IsUnsignedDecimal(s) ==
    IF AfterPrefix(s, DigitSet) = "" THEN s # ""
    ELSE /\ Char(AfterPrefix(s, DigitSet), 1) = "."
         /\ AllChars(Tail(AfterPrefix(s, DigitSet)), DigitSet)
         /\ Len(s) > 1

\* the value of the digits whole followed by the fraction digits frac
DecimalOf(whole, frac) == Normalised(parseInt(whole \o frac), Len(frac))

UnsignedDecimal(s) ==
    DecimalOf(SubSeq(s, 1, PrefixLen(s, DigitSet)),
              SubSeq(s, PrefixLen(s, DigitSet) + 2, Len(s)))

Negated(n) == Num(0 - n.m, n.e)

\* Number(s): the empty text is 0, a decimal literal is its value, else NaN
JSNumber(s) ==
    IF s = "" THEN IntNum(0)
    ELSE IF Char(s, 1) = "-"
    THEN IF IsUnsignedDecimal(Tail(s)) THEN Negated(UnsignedDecimal(Tail(s)))
         ELSE NaN
    ELSE IF IsUnsignedDecimal(s) THEN UnsignedDecimal(s) ELSE NaN

(***************************************************************************)
(* toNumber                                                                *)
(***************************************************************************)
\* the characters /[^\d.,-]/ does not match
KeptByFirstReplace == DigitSet \cup {".", ",", "-"}

\* a cleaning that forgets the thousand separators
CleanedKeepingCommas(s) == DropChars(KeepChars(s, KeptByFirstReplace), SpaceSet)

\* v.replace(/[^\d.,-]/g, '').replace(/\s+/g, '').replace(/,/g, '')
Cleaned(s) ==
    DropChars(DropChars(KeepChars(s, KeptByFirstReplace), SpaceSet), {","})

\* Number.isFinite(n) ? n : NaN
FiniteOrNaN(n) == IF IsFinite(n) THEN n ELSE NaN

ToNumberOfText(s) == FiniteOrNaN(JSNumber(Cleaned(s)))

toNumber(v) ==
    IF IsNumberType(v) THEN v
    ELSE IF IsString(v) THEN ToNumberOfText(v.s)
    ELSE NaN

(***************************************************************************)
(* monthIndex                                                              *)
(***************************************************************************)
MONTHS3 == <<"Jan", "Feb", "Mar", "Apr", "May", "Jun",
             "Jul", "Aug", "Sep", "Oct", "Nov", "Dec">>
FullMonths == <<"January", "February", "March", "April", "May", "June",
                "July", "August", "September", "October", "November",
                "December">>

\* Array.prototype.indexOf, 0-based, -1 when absent
indexOf(seq, x) ==
    IF \E i \in 1..Len(seq) : seq[i] = x
    THEN (CHOOSE i \in 1..Len(seq) :
            seq[i] = x /\ \A j \in 1..(i - 1) : seq[j] # x) - 1
    ELSE -1

\* fullTo3: the abbreviation of a full month name in any case, or "" for null
fullTo3(m) ==
    LET low == [i \in 1..Len(FullMonths) |-> toLowerCase(FullMonths[i])]
        idx == indexOf(low, toLowerCase(m))
    IN  IF idx >= 0 THEN MONTHS3[idx + 1] ELSE ""

\* a || b of two texts, "" standing for null
OrElseText(a, b) == IF a # "" THEN a ELSE b

\* t = letters, whitespace, four digits: the groups of /^([A-Za-z]+)\s+(\d{4})$/
WordYearParts(t, lp, sp) ==
    [ok |-> /\ lp > 0 /\ sp > 0 /\ Len(t) = lp + sp + 4
            /\ AllChars(SubSeq(t, lp + sp + 1, Len(t)), DigitSet),
     word |-> SubSeq(t, 1, lp),
     year |-> SubSeq(t, lp + sp + 1, Len(t))]

WordYearMatch(t) ==
    WordYearParts(t, PrefixLen(t, LetterSet),
                  PrefixLen(AfterPrefix(t, LetterSet), SpaceSet))

\* the month offset the two word shapes use: mi >= 0 ? mi : 0
OffsetOrZero(mi) == IF mi >= 0 THEN mi ELSE 0

\* the regular expressions of monthIndex tried in turn on the trimmed text t,
\* wy being the match of its word-year shape
MonthIndexOfTrimmed(t, wy) ==
    IF wy.ok /\ Len(wy.word) = 3
    THEN \* /^([A-Za-z]{3})\s+(\d{4})$/
         IntNum(parseInt(wy.year) * 12
                  + OffsetOrZero(indexOf(MONTHS3, slice(wy.word, 0, 3))))
    ELSE IF wy.ok
    THEN \* /^([A-Za-z]+)\s+(\d{4})$/
         IntNum(parseInt(wy.year) * 12
                  + OffsetOrZero(indexOf(MONTHS3,
                      OrElseText(fullTo3(wy.word), slice(wy.word, 0, 3)))))
    ELSE IF Len(t) = 7 /\ AllChars(SubSeq(t, 1, 4), DigitSet)
            /\ Char(t, 5) = "-" /\ AllChars(SubSeq(t, 6, 7), DigitSet)
    THEN \* /^(\d{4})-(\d{2})$/
         IntNum(parseInt(SubSeq(t, 1, 4)) * 12 + (parseInt(SubSeq(t, 6, 7)) - 1))
    ELSE IF Len(t) = 7 /\ AllChars(SubSeq(t, 1, 2), DigitSet)
            /\ Char(t, 3) = "/" /\ AllChars(SubSeq(t, 4, 7), DigitSet)
    THEN \* /^(\d{2})\/(\d{4})$/
         IntNum(parseInt(SubSeq(t, 4, 7)) * 12 + (parseInt(SubSeq(t, 1, 2)) - 1))
    ELSE IF Len(t) = 4 /\ AllChars(t, DigitSet)
    THEN \* /^(\d{4})$/
         IntNum(parseInt(t) * 12)
    ELSE PosInf

MonthIndexOfText(s) == MonthIndexOfTrimmed(trim(s), WordYearMatch(trim(s)))

monthIndex(v) == IF IsString(v) THEN MonthIndexOfText(v.s) ELSE PosInf

(***************************************************************************)
(* The calls: one pure function applied to one input                       *)
(***************************************************************************)
\* texts of at most n characters of the alphabet
RECURSIVE TextsUpTo(_, _)
TextsUpTo(alphabet, n) ==
    IF n = 0 THEN {""}
    ELSE LET shorter == TextsUpTo(alphabet, n - 1)
         IN  {""} \cup {c \o s : c \in alphabet, s \in shorter}

MaxTextLen == 4
NumberAlphabet == {"1", "5", "0", ".", ",", "-", "R", " "}
NumberExamples == {"RM 1,234.50", "abc", "45%", "-3.5", "N/A", "$ 1,000"}

NumberInputs ==
    {Str(s) : s \in TextsUpTo(NumberAlphabet, MaxTextLen) \cup NumberExamples}
      \cup {IntNum(5), Num(-25, 1), NaN, PosInf, Null, Undefined, Bool(TRUE)}

InitNumber ==
    /\ fn = "toNumber"
    /\ args \in {<<v>> : v \in NumberInputs}
    /\ ret = Pending
    /\ app = NoApp

CallToNumber ==
    /\ fn = "toNumber"
    /\ ret = Pending
    /\ ret' = toNumber(args[1])
    /\ UNCHANGED <<fn, args, app>>

NextNumber == CallToNumber

SpecNumber == InitNumber /\ [][NextNumber]_vars

(***************************************************************************)
(* Claims about toNumber                                                   *)
(***************************************************************************)
Returned == ret # Pending

HasDigit(s) == \E i \in 1..Len(s) : IsDigit(Char(s, i))
HasLetter(s) == \E i \in 1..Len(s) : IsLetter(Char(s, i))

\* C3: toNumber returns NaN for every text that does not denote a number,
\* in particular for a text of letters without any digit such as "abc".
C3_NaNForTextWithoutDigit ==
    (fn = "toNumber" /\ Returned /\ IsString(args[1])
        /\ HasLetter(args[1].s) /\ ~HasDigit(args[1].s))
      => ret = NaN

\* the characters the claim keeps: digits, periods and minus signs
NumberChars == DigitSet \cup {".", "-"}

CountOf(s, c) == Cardinality({i \in 1..Len(s) : Char(s, i) = c})

\* the number a text of digits, periods and minus signs denotes, read off its
\* sign, its digits and the place of its period; ok is FALSE when it denotes none
Denoted(s) ==
    LET neg == s # "" /\ Char(s, 1) = "-"
        body == IF neg THEN Tail(s) ELSE s
        digits == KeepChars(body, DigitSet)
        dots == CountOf(body, ".")
        fracLen == IF dots = 1 THEN Len(body) - IndexIn(body, ".") ELSE 0
        magnitude == parseInt(digits)
    IN  [ok |-> CountOf(body, "-") = 0 /\ dots <= 1 /\ digits # "",
         value |-> Normalised(IF neg THEN 0 - magnitude ELSE magnitude, fracLen)]

\* C4: toNumber returns a numeric input unchanged, and for a text the number
\* denoted by what is left after deleting every character that is not a
\* digit, period or minus sign (commas included): "RM 1,234.50" is 1234.5,
\* "45%" is 45, "$ 1,000" is 1000.
C4_ToNumberTolerant ==
    (fn = "toNumber" /\ Returned) =>
      LET v == args[1] IN
        /\ IsNumberType(v) => ret = v
        /\ IsString(v) =>
             LET d == Denoted(KeepChars(v.s, NumberChars)) IN d.ok => ret = d.value
        /\ v = Str("RM 1,234.50") => ret = Num(12345, 1)
        /\ v = Str("45%") => ret = IntNum(45)
        /\ v = Str("$ 1,000") => ret = IntNum(1000)
        /\ v = Str("-3.5") => ret = Num(-35, 1)

C4_Witness ==
    fn = "toNumber" /\ args[1] = Str("RM 1,234.50") /\ ret = Num(12345, 1)

(***************************************************************************)
(* Calls of monthIndex                                                     *)
(***************************************************************************)
\* four-digit years as written and as numbers
Years == {[text |-> "2024", num |-> 2024], [text |-> "1999", num |-> 1999],
          [text |-> "0007", num |-> 7]}
TwoDigits == <<"01", "02", "03", "04", "05", "06",
               "07", "08", "09", "10", "11", "12">>

MaxPad == 1

RECURSIVE Spaces(_)
Spaces(n) == IF n = 0 THEN "" ELSE " " \o Spaces(n - 1)

Padded(s, l, r) == Spaces(l) \o s \o Spaces(r)

\* the texts of month m of year y in the four month shapes
MonthShapes(y, m) ==
    {MONTHS3[m] \o " " \o y.text, FullMonths[m] \o " " \o y.text,
     y.text \o "-" \o TwoDigits[m], TwoDigits[m] \o "/" \o y.text}

SupportedTexts ==
    UNION {MonthShapes(y, m) \cup {y.text} : y \in Years, m \in 1..12}

OtherWords == {"Foo", "may", "MAY", "jan", "january", "JANUARY", "Sept", "Q", "Week"}
OtherTexts ==
    {w \o " " \o y.text : w \in OtherWords, y \in Years}
      \cup {"Q1", "", "abc", "Jan2024", "Jan 24", "Jan  2024", "2024/01",
            "2024-1", "20245", "2024-13", "2024-00", "00/2024", "13/2024",
            "Jan 2024 x", "1 2024"}

MonthInputs ==
    {Str(Padded(s, l, r)) :
        s \in SupportedTexts \cup OtherTexts, l \in 0..MaxPad, r \in 0..MaxPad}
      \cup {Null, Undefined, IntNum(2024), NaN, Bool(FALSE)}

InitMonth ==
    /\ fn = "monthIndex"
    /\ args \in {<<v>> : v \in MonthInputs}
    /\ ret = Pending
    /\ app = NoApp

CallMonthIndex ==
    /\ fn = "monthIndex"
    /\ ret = Pending
    /\ ret' = monthIndex(args[1])
    /\ UNCHANGED <<fn, args, app>>

NextMonth == CallMonthIndex

SpecMonth == InitMonth /\ [][NextMonth]_vars

(***************************************************************************)
(* Claims about monthIndex                                                 *)
(***************************************************************************)
\* C5: for every four-digit year Y and month M, "<Mon> Y", "<Month> Y", "Y-MM"
\* and "MM/Y" all give Y*12+(M-1) and "Y" alone gives Y*12, with or without
\* leading and trailing whitespace.
C5_MonthShapesAgree ==
    (fn = "monthIndex" /\ Returned /\ IsString(args[1])) =>
      \A y \in Years, l \in 0..MaxPad, r \in 0..MaxPad :
        /\ args[1].s = Padded(y.text, l, r) => ret = IntNum(y.num * 12)
        /\ \A m \in 1..12 :
             args[1].s \in {Padded(s, l, r) : s \in MonthShapes(y, m)}
               => ret = IntNum(y.num * 12 + (m - 1))

C5_Witness ==
    /\ fn = "monthIndex"
    /\ args[1] = Str(" 03/1999 ")
    /\ ret = IntNum(1999 * 12 + 2)

\* the five temporal shapes of the specification, on the trimmed text
IsSupportedShape(s) ==
    LET t == trim(s)
        wy == WordYearMatch(t)
    IN  \/ wy.ok /\ \E m \in 1..12 : wy.word = MONTHS3[m]
        \/ wy.ok /\ \E m \in 1..12 : toLowerCase(wy.word) = toLowerCase(FullMonths[m])
        \/ Len(t) = 7 /\ Char(t, 5) = "-"
             /\ AllChars(SubSeq(t, 1, 4) \o SubSeq(t, 6, 7), DigitSet)
        \/ Len(t) = 7 /\ Char(t, 3) = "/"
             /\ AllChars(SubSeq(t, 1, 2) \o SubSeq(t, 4, 7), DigitSet)
        \/ Len(t) = 4 /\ AllChars(t, DigitSet)

\* C6: monthIndex returns +Infinity for every input that is not one of the five
\* supported shapes: a non-string, "Q1", or a word that is no month followed by
\* a year, such as "Foo 2024".
C6_InfinityForOtherShapes ==
    (fn = "monthIndex" /\ Returned
        /\ (IsString(args[1]) => ~IsSupportedShape(args[1].s)))
      => ret = PosInf

\* the trimmed text is the full name of month m, in any letter case, then
\* whitespace, then the year y
IsFullNameAndYear(s, m, y) ==
    /\ WordYearMatch(trim(s)).ok
    /\ toLowerCase(WordYearMatch(trim(s)).word) = toLowerCase(FullMonths[m])
    /\ WordYearMatch(trim(s)).year = y.text

\* C15: for every full month name in lower, upper or mixed case and every
\* four-digit year Y, monthIndex of the name and the year is Y*12 plus the
\* 0-based number of the month, so that "may 2024" and "MAY 2024" give
\* 2024*12+4.
C15_FullMonthNameAnyCase ==
    (fn = "monthIndex" /\ Returned /\ IsString(args[1])) =>
      \A y \in Years, m \in 1..12 :
        IsFullNameAndYear(args[1].s, m, y) => ret = IntNum(y.num * 12 + (m - 1))

\* the same for the names of more than three letters, which the second
\* pattern of monthIndex gets to see
FullNameAnyCaseApartFromMay ==
    (fn = "monthIndex" /\ Returned /\ IsString(args[1])) =>
      \A y \in Years, m \in 1..12 :
        (IsFullNameAndYear(args[1].s, m, y) /\ Len(FullMonths[m]) > 3)
          => ret = IntNum(y.num * 12 + (m - 1))

\* the four digits the trimmed text t gives as its year
YearWritten(t) ==
    IF WordYearMatch(t).ok THEN parseInt(WordYearMatch(t).year)
    ELSE IF Len(t) = 7 /\ Char(t, 3) = "/" THEN parseInt(SubSeq(t, 4, 7))
    ELSE parseInt(SubSeq(t, 1, 4))

\* C16: every finite value monthIndex returns is year*12 + monthOffset for the
\* year written in the text and a monthOffset in 0..11; "2024-13", "2024-00"
\* and "00/2024" yield no finite value outside the twelve months of 2024.
C16_OffsetWithinYear ==
    (fn = "monthIndex" /\ Returned /\ IsString(args[1]) /\ IsFinite(ret)) =>
      /\ ret.e = 0
      /\ ret.m - YearWritten(trim(args[1].s)) * 12 \in 0..11

(***************************************************************************)
(* Arrays, records and property keys                                       *)
(***************************************************************************)
\* an array of values, and a record as its entries [k, v] in insertion order
Arr(items) == [t |-> "array", a |-> items]
Obj(entries) == [t |-> "object", o |-> entries]
IsArray(v) == v.t = "array"
IsObject(v) == v.t = "object"
\* what a call returns when it throws
Raised == [t |-> "TypeError"]

\* JavaScript truthiness of the values a column key can be
Truthy(v) ==
    CASE v.t = "string" -> v.s # ""
      [] v.t = "number" -> v.m # 0
      [] v.t = "boolean" -> v.b
      [] v.t \in {"array", "object", "Infinity"} -> TRUE
      [] OTHER -> FALSE

\* a || b
OrElse(a, b) == IF Truthy(a) THEN a ELSE b

RECURSIVE NatToText(_)
NatToText(n) ==
    IF n < 10 THEN Char(DigitChars, n + 1)
    ELSE NatToText(n \div 10) \o Char(DigitChars, (n % 10) + 1)

RECURSIVE ZeroPadded(_, _)
ZeroPadded(s, n) == IF Len(s) >= n THEN s ELSE ZeroPadded("0" \o s, n)

\* the digits ds with a period before the last e of them
DecimalText(negative, ds, e) ==
    (IF negative THEN "-" ELSE "")
      \o SubSeq(ds, 1, Len(ds) - e)
      \o (IF e > 0 THEN "." \o SubSeq(ds, Len(ds) - e + 1, Len(ds)) ELSE "")

\* String(v) of a finite number m / 10^e
NumToText(v) ==
    DecimalText(v.m < 0,
                ZeroPadded(NatToText(IF v.m < 0 THEN 0 - v.m ELSE v.m), v.e + 1),
                v.e)

\* String(v), also the property key a value is used as
ToStr(v) ==
    CASE v.t = "string" -> v.s
      [] v.t = "number" -> NumToText(v)
      [] v.t = "boolean" -> IF v.b THEN "true" ELSE "false"
      [] OTHER -> v.t

\* Object.keys(obj || {})
keysOf(obj) ==
    IF IsObject(obj) THEN [i \in 1..Len(obj.o) |-> obj.o[i].k] ELSE <<>>

HasKey(obj, k) == IsObject(obj) /\ \E i \in 1..Len(obj.o) : obj.o[i].k = k

\* obj[k] for the property key k
GetNamed(obj, k) ==
    IF HasKey(obj, k)
    THEN obj.o[CHOOSE i \in 1..Len(obj.o) : obj.o[i].k = k].v
    ELSE Undefined

\* obj[key] of a record: undefined when the record has no such key
Get(obj, key) == GetNamed(obj, ToStr(key))

\* an assignment that leaves a property that is there as it is
SetNamedOnce(obj, k, v) ==
    IF HasKey(obj, k) THEN obj ELSE Obj(Append(obj.o, [k |-> k, v |-> v]))

\* obj[k] = v for the property key k
SetNamed(obj, k, v) ==
    IF HasKey(obj, k)
    THEN Obj([i \in 1..Len(obj.o) |->
                IF obj.o[i].k = k THEN [k |-> k, v |-> v] ELSE obj.o[i]])
    ELSE Obj(Append(obj.o, [k |-> k, v |-> v]))

\* obj[key] = v
SetField(obj, key, v) == SetNamed(obj, ToStr(key), v)

\* Array.prototype.filter over column names, the test given as the set of
\* the names that pass it
FilterSeq(seq, passing) ==
    LET kept[i \in 0..Len(seq)] ==
            IF i = 0 THEN <<>>
            ELSE IF seq[i] \in passing THEN Append(kept[i - 1], seq[i])
            ELSE kept[i - 1]
    IN  kept[Len(seq)]

\* Array.prototype.find over column names: the first name that passes, as a
\* string value, undefined when there is none
find(seq, passing) ==
    IF \E i \in 1..Len(seq) : seq[i] \in passing
    THEN Str(seq[CHOOSE i \in 1..Len(seq) :
                   seq[i] \in passing /\ \A j \in 1..(i - 1) : seq[j] \notin passing])
    ELSE Undefined

\* seq[0]
First(seq) == IF Len(seq) > 0 THEN Str(seq[1]) ELSE Undefined

(***************************************************************************)
(* Column name heuristics                                                  *)
(***************************************************************************)
\* the literal characters of a pattern, its anchors taken off
LiteralOf(p) ==
    SubSeq(p, IF Char(p, 1) = "^" THEN 2 ELSE 1,
              IF Char(p, Len(p)) = "$" THEN Len(p) - 1 ELSE Len(p))

\* lit occurs in name, at its start if anchS, up to its end if anchE
MatchesLiteral(lit, name, anchS, anchE) ==
    \E i \in 1..(Len(name) - Len(lit) + 1) :
        /\ anchS => i = 1
        /\ anchE => i + Len(lit) - 1 = Len(name)
        /\ \A j \in 1..Len(lit) : SameCharI(Char(name, i + j - 1), Char(lit, j))

\* new RegExp(p, 'i').test(name) for a pattern of literal characters with an
\* optional ^ in front and an optional $ at the end
RegExpTestI(p, name) == MatchesLiteral(LiteralOf(p), name, Char(p, 1) = "^",
                                      Char(p, Len(p)) = "$")

nameMatches(name, patterns) ==
    \E i \in 1..Len(patterns) : RegExpTestI(patterns[i], name)

TimeWords == <<"month", "date", "period", "quarter", "year">>

\* /(^|_)(month|date|period|quarter|year)s?($|_)/i.test(name)
looksLikeTimeName(name) ==
    LET EndsWord(j) == j > Len(name) \/ Char(name, j) = "_"
    IN  \E i \in 1..Len(name), w \in 1..Len(TimeWords) :
            LET j == i + Len(TimeWords[w]) IN
              /\ i = 1 \/ Char(name, i - 1) = "_"
              /\ j - 1 <= Len(name)
              /\ \A d \in 1..Len(TimeWords[w]) :
                    SameCharI(Char(name, i + d - 1), Char(TimeWords[w], d))
              /\ EndsWord(j) \/ (SameCharI(Char(name, j), "s") /\ EndsWord(j + 1))

SampleLimit == 15
RowLimit == 20

\* a threshold rounded down instead of up
FloorSixTenths(n) == (6 * n) \div 10

\* Math.ceil(n * 0.6), which the double arithmetic gives exactly for n <= 15
CeilSixTenths(n) == (6 * n + 9) \div 10

\* v ?? ''
OrEmptyText(v) == IF v.t \in {"null", "undefined"} THEN Str("") ELSE v

\* parsed >= Math.ceil(Math.max(1, toCheck.length) * 0.6)
ParsedEnough(toCheck) ==
    Cardinality({i \in 1..Len(toCheck) :
                   IsFinite(monthIndex(Str(ToStr(OrEmptyText(toCheck[i])))))})
      >= CeilSixTenths(IF Len(toCheck) = 0 THEN 1 ELSE Len(toCheck))

isTimeLikeAxis(name, sampleValues) ==
    IF ~Truthy(name) THEN FALSE
    ELSE IF looksLikeTimeName(ToStr(name)) THEN TRUE
    ELSE ParsedEnough(slice(sampleValues, 0, SampleLimit))

(***************************************************************************)
(* resolveAxes                                                             *)
(***************************************************************************)
timeCandidates == <<"^month$", "month", "date", "period", "quarter", "^year$">>
geoPrefs == <<"^region$", "region", "^branch$", "branch_name", "city",
              "country", "location">>
productPrefs == <<"^product_category$", "product_category", "^category$",
                  "category", "^product$", "model", "product_name", "product">>
metricPref == <<"revenue_rm", "revenue", "total_amount", "price", "sales",
                "total", "total_sales", "quantity", "qty", "count">>

EmptyAxes == [xKey |-> Null, seriesKey |-> Null, yKey |-> Null, isMulti |-> FALSE]

\* rows[0], undefined on an empty array
SampleOf(rows) == IF Len(rows.a) > 0 THEN rows.a[1] ELSE Undefined

\* isNum: the sample's value of column c normalizes to a finite number
isNum(sample, c) == IsFinite(toNumber(Get(sample, Str(c))))

\* the names of a column list
ColumnSet(cols) == {cols[i] : i \in 1..Len(cols)}

\* cols.filter(isNum) and cols.filter(c => !isNum(c))
numericCols(sample, cols) ==
    FilterSeq(cols, {c \in ColumnSet(cols) : isNum(sample, c)})

nonNumericCols(sample, cols) ==
    FilterSeq(cols, {c \in ColumnSet(cols) : ~isNum(sample, c)})

\* cols.find(c => nameMatches(c, patterns))
MatchingCol(cols, patterns) ==
    find(cols, {c \in ColumnSet(cols) : nameMatches(c, patterns)})

\* cols.find(c => metricPref.some(m => new RegExp(m, 'i').test(c)) && isNum(c))
MetricCol(sample, cols) ==
    find(cols, {c \in ColumnSet(cols) :
                  /\ \E i \in 1..Len(metricPref) : RegExpTestI(metricPref[i], c)
                  /\ isNum(sample, c)})

\* xKey before the swap
xCandidate(timeCol, geoCol, nonNumeric) ==
    IF ~Truthy(timeCol)
    THEN OrElse(geoCol,
           OrElse(find(nonNumeric,
                       {c \in ColumnSet(nonNumeric) : looksLikeTimeName(c)}),
             OrElse(First(nonNumeric), Null)))
    ELSE timeCol

\* a series choice that does not ask whether the column is the x-axis
seriesCandidateAlsoX(xKey, productCol, geoCol, nonNumeric) ==
    IF Truthy(xKey) /\ Truthy(productCol) THEN productCol
    ELSE IF Truthy(xKey) /\ Truthy(geoCol) THEN geoCol
    ELSE OrElse(First(nonNumeric), Null)

\* seriesKey before the swap
seriesCandidate(xKey, productCol, geoCol, nonNumeric) ==
    IF Truthy(xKey) /\ Truthy(productCol) /\ productCol # xKey
    THEN productCol
    ELSE IF Truthy(xKey) /\ Truthy(geoCol) /\ geoCol # xKey
    THEN geoCol
    ELSE OrElse(find(nonNumeric, {c \in ColumnSet(nonNumeric) : Str(c) # xKey}),
                Null)

\* yKey
yCandidate(metricCol, numeric) ==
    IF ~Truthy(metricCol) THEN OrElse(First(numeric), Null) ELSE metricCol

CandidatesFor(xKey, cols, nonNumeric, yKey) ==
    [xKey |-> xKey,
     seriesKey |-> seriesCandidate(xKey, MatchingCol(cols, productPrefs),
                                   MatchingCol(cols, geoPrefs), nonNumeric),
     yKey |-> yKey]

CandidatesOfSample(sample, cols, nonNumeric) ==
    CandidatesFor(xCandidate(MatchingCol(cols, timeCandidates),
                             MatchingCol(cols, geoPrefs), nonNumeric),
                  cols, nonNumeric,
                  yCandidate(MetricCol(sample, cols), numericCols(sample, cols)))

\* the x-axis, series and metric columns chosen before the swap
Candidates(rows) ==
    CandidatesOfSample(SampleOf(rows), keysOf(SampleOf(rows)),
                       nonNumericCols(SampleOf(rows), keysOf(SampleOf(rows))))

\* r?.[key]
OptGet(r, key) == IF IsObject(r) THEN Get(r, key) ELSE Undefined

\* rows.slice(0, 20).map(r => r?.[xKey])
SampledValues(rows, xKey) ==
    [i \in 1..Len(slice(rows.a, 0, RowLimit)) |-> OptGet(rows.a[i], xKey)]

\* a swap test that forgets to look whether the x-axis is time-like
ShouldSwapIgnoringTime(rows, xKey, seriesKey) ==
    /\ ~nameMatches(ToStr(OrElse(xKey, Str(""))), geoPrefs)
    /\ nameMatches(ToStr(OrElse(seriesKey, Str(""))), geoPrefs)

\* !xLooksTime && !nameMatches(xKey || '', geoPrefs)
\*   && nameMatches(seriesKey || '', geoPrefs)
ShouldSwap(rows, xKey, seriesKey) ==
    /\ ~isTimeLikeAxis(xKey, SampledValues(rows, xKey))
    /\ ~nameMatches(ToStr(OrElse(xKey, Str(""))), geoPrefs)
    /\ nameMatches(ToStr(OrElse(seriesKey, Str(""))), geoPrefs)

\* a multi-series test that forgets to ask for a series column
IsMultiWithoutSeries(sample, xKey, seriesKey, yKey) ==
    /\ Truthy(xKey) /\ Truthy(yKey)
    /\ xKey # seriesKey
    /\ IsFinite(toNumber(Get(sample, yKey)))

\* Boolean(xKey && seriesKey && yKey && xKey !== seriesKey
\*   && Number.isFinite(toNumber(sample[yKey])))
IsMulti(sample, xKey, seriesKey, yKey) ==
    /\ Truthy(xKey) /\ Truthy(seriesKey) /\ Truthy(yKey)
    /\ xKey # seriesKey
    /\ IsFinite(toNumber(Get(sample, yKey)))

\* the roles returned
Resolved(sample, xKey, seriesKey, yKey) ==
    [xKey |-> xKey, seriesKey |-> seriesKey, yKey |-> yKey,
     isMulti |-> IsMulti(sample, xKey, seriesKey, yKey)]

\* if (shouldSwap) { const tmp = xKey; xKey = seriesKey; seriesKey = tmp; }
Swapped(sample, cand, swap) ==
    Resolved(sample,
             IF swap THEN cand.seriesKey ELSE cand.xKey,
             IF swap THEN cand.xKey ELSE cand.seriesKey,
             cand.yKey)

ResolveCandidates(rows, cand) ==
    Swapped(SampleOf(rows), cand, ShouldSwap(rows, cand.xKey, cand.seriesKey))

\* the roles of a non-empty result set
ResolveRows(rows) == ResolveCandidates(rows, Candidates(rows))

\* resolveAxes without its first test: rows[0] of null or undefined throws
resolveAxesUnguarded(rows) ==
    IF ~IsArray(rows) THEN Raised ELSE ResolveRows(rows)

resolveAxes(rows) ==
    IF ~IsArray(rows) \/ Len(rows.a) = 0 THEN EmptyAxes ELSE ResolveRows(rows)

(***************************************************************************)
(* Calls of resolveAxes                                                    *)
(***************************************************************************)
ColNames == <<"month", "update", "region", "category", "revenue", "name">>
MaxCols == 3
MaxRows == 2

RECURSIVE Ascending(_)
Ascending(S) ==
    IF S = {} THEN <<>>
    ELSE LET lo == CHOOSE i \in S : \A j \in S : i <= j
         IN  <<lo>> \o Ascending(S \ {lo})

Reversed(seq) == [i \in 1..Len(seq) |-> seq[Len(seq) + 1 - i]]

\* the column lists: up to MaxCols of the names, in the order of ColNames or
\* in the opposite order
ColumnLists ==
    LET picks == {S \in SUBSET (1..Len(ColNames)) :
                    Cardinality(S) >= 1 /\ Cardinality(S) <= MaxCols}
        names(S) == [i \in 1..Cardinality(S) |-> ColNames[Ascending(S)[i]]]
    IN  {names(S) : S \in picks} \cup {Reversed(names(S)) : S \in picks}

\* a text that is neither a number nor a month, a month that is no number,
\* a number, and a month whose digits make it a number
CellValues == {Str("a-b"), Str("2024-01"), IntNum(100), Str("Jan 2024")}
\* the values of the rows after the first
LaterValues == {Str("a-b"), Str("2024-01")}

RowOf(cols, vals) == Obj([i \in 1..Len(cols) |-> [k |-> cols[i], v |-> vals[i]]])
UniformRow(cols, v) == Obj([i \in 1..Len(cols) |-> [k |-> cols[i], v |-> v]])

SeqsUpTo(S, n) == UNION {[1..k -> S] : k \in 0..n}

GeneratedResultSets ==
    {Arr(<<RowOf(cols, vals)>>
           \o [i \in 1..Len(later) |-> UniformRow(cols, later[i])]) :
        <<cols, vals, later>> \in
          UNION {{<<c, v, l>> : v \in [1..Len(c) -> CellValues],
                                l \in SeqsUpTo(LaterValues, MaxRows - 1)} :
                   c \in ColumnLists}}

ShoesRow ==
    RowOf(<<"category", "region", "revenue">>,
          <<Str("Shoes"), Str("West"), IntNum(100)>>)

\* records after the first that lack its keys or have a key it lacks
IrregularLater(cols) ==
    {Obj(<<>>),
     UniformRow(Tail(cols), Str("Jan 2024")),
     UniformRow(Append(cols, "extra"), Str("a-b"))}

IrregularResultSets ==
    UNION {{Arr(<<RowOf(cols, vals), later>>) :
               vals \in [1..Len(cols) -> CellValues],
               later \in IrregularLater(cols)} :
             cols \in {c \in ColumnLists : Len(c) <= 2}}

\* result sets whose column names are those of the examples: a plural time
\* name beside a geography name, a name with a time word inside another
\* word, two product names, two metric names
NamedExamples ==
    {Arr(<<RowOf(<<"region", "sale_years", "revenue">>,
                 <<Str("a-b"), Str("2024"), IntNum(100)>>)>>),
     Arr(<<RowOf(<<"region", "update_count">>, <<Str("a-b"), IntNum(100)>>)>>),
     Arr(<<RowOf(<<"category", "name", "product">>,
                 <<Str("a-b"), Str("a-b"), Str("a-b")>>)>>),
     Arr(<<RowOf(<<"month", "category", "revenue">>,
                 <<Str("Jan 2024"), IntNum(100), IntNum(100)>>)>>),
     Arr(<<RowOf(<<"name", "count", "revenue">>,
                 <<Str("a-b"), IntNum(100), IntNum(100)>>)>>)}

ResolveInputs ==
    GeneratedResultSets
      \cup IrregularResultSets
      \cup NamedExamples
      \cup {Arr(<<>>), Null, Undefined, Arr(<<ShoesRow>>), Arr(<<Null>>)}

InitResolve ==
    /\ fn = "resolveAxes"
    /\ args \in {<<rows>> : rows \in ResolveInputs}
    /\ ret = Pending
    /\ app = NoApp

CallResolveAxes ==
    /\ fn = "resolveAxes"
    /\ ret = Pending
    /\ ret' = resolveAxes(args[1])
    /\ UNCHANGED <<fn, args, app>>

NextResolve == CallResolveAxes

SpecResolve == InitResolve /\ [][NextResolve]_vars

(***************************************************************************)
(* Claims about resolveAxes                                                *)
(***************************************************************************)
ResolvedRows ==
    fn = "resolveAxes" /\ Returned /\ IsArray(args[1]) /\ Len(args[1].a) > 0

\* every record has exactly two columns, and of the first record's two values
\* exactly one normalizes to a finite number
TwoColumnsOneNumeric(rows) ==
    /\ \A i \in 1..Len(rows.a) : IsObject(rows.a[i]) /\ Len(rows.a[i].o) = 2
    /\ Cardinality({i \in 1..2 :
          IsFinite(toNumber(rows.a[1].o[i].v))}) = 1

\* C1: for a non-empty result set of two columns, one numeric and one not,
\* resolveAxes returns the numeric column as yKey, the other as xKey and no
\* series, whatever the names and the order of the columns.
C1_TwoColumnRoles ==
    (ResolvedRows /\ TwoColumnsOneNumeric(args[1])) =>
      LET first == args[1].a[1].o
          n == CHOOSE i \in 1..2 : IsFinite(toNumber(first[i].v))
      IN  /\ ret.yKey = Str(first[n].k)
          /\ ret.xKey = Str(first[3 - n].k)
          /\ ret.seriesKey = Null

\* C2: on an empty result set, or an input that is no array, resolveAxes
\* returns {xKey: null, seriesKey: null, yKey: null, isMulti: false} and does
\* not raise.
C2_EmptyResolvesToNulls ==
    (fn = "resolveAxes" /\ Returned
        /\ (IsArray(args[1]) => Len(args[1].a) = 0))
      => ret = [xKey |-> Null, seriesKey |-> Null, yKey |-> Null,
                isMulti |-> FALSE]

C2_Witness ==
    /\ fn = "resolveAxes" /\ args[1] = Arr(<<>>)
    /\ Returned /\ ret # Raised /\ ret.xKey = Null

\* the name of column key k matches a geography keyword
IsGeoKey(k) == k # Null /\ nameMatches(ToStr(k), geoPrefs)

\* column key k is time-like by its name or by the values sampled from rows
IsTimeKey(rows, k) == isTimeLikeAxis(k, SampledValues(rows, k))

\* the pair is to be exchanged: x not time-like, x no geography name, series
\* a geography name
ToExchange(rows, xKey, seriesKey) ==
    ~IsTimeKey(rows, xKey) /\ ~IsGeoKey(xKey) /\ IsGeoKey(seriesKey)

\* C7: the returned x-axis and series are the candidate pair exchanged exactly
\* when the candidate x-axis is not time-like, its name is no geography name
\* and the candidate series name is one; so no result has a non-time,
\* non-geography x-axis together with a geography series, and
\* {category: "Shoes", region: "West", revenue: 100} resolves to x = region,
\* series = category.
C7_SwapRule ==
    ResolvedRows =>
      LET rows == args[1]
          c == Candidates(rows)
          exchange == ToExchange(rows, c.xKey, c.seriesKey)
      IN  /\ exchange => ret.xKey = c.seriesKey /\ ret.seriesKey = c.xKey
          /\ ~exchange => ret.xKey = c.xKey /\ ret.seriesKey = c.seriesKey
          /\ ~ToExchange(rows, ret.xKey, ret.seriesKey)
          /\ rows = Arr(<<ShoesRow>>) =>
               ret.xKey = Str("region") /\ ret.seriesKey = Str("category")

C7_Witness ==
    /\ ResolvedRows
    /\ LET c == Candidates(args[1])
       IN  ToExchange(args[1], c.xKey, c.seriesKey)
    /\ ret.xKey = Str("region")
    /\ ret.seriesKey = Str("update")

\* C10: isMulti is true only if xKey, seriesKey and yKey are all non-null,
\* xKey and seriesKey are different columns and the first record's value under
\* yKey normalizes to a finite number.
C10_MultiOnlyWhenComplete ==
    (ResolvedRows /\ ret.isMulti) =>
      /\ ret.xKey # Null /\ ret.seriesKey # Null /\ ret.yKey # Null
      /\ ret.xKey # ret.seriesKey
      /\ IsFinite(toNumber(Get(args[1].a[1], ret.yKey)))

C10_Witness ==
    ResolvedRows /\ ret.isMulti /\ ret.seriesKey # Null

(***************************************************************************)
(* pivotData                                                               *)
(***************************************************************************)
\* the order of String.prototype.localeCompare on the characters the model's
\* texts use: whitespace and punctuation, then digits, then letters, the case
\* of a letter counting only between texts that are otherwise equal
CollationOrder == " _-,./%$0123456789abcdefghijklmnopqrstuvwxyz"

CollationRank(c) ==
    IF LowerChar(c) \in CharSet(CollationOrder)
    THEN IndexIn(CollationOrder, LowerChar(c))
    ELSE Len(CollationOrder) + 1

\* the least number of S, or d when S is empty
LeastOr(S, d) == IF S = {} THEN d ELSE CHOOSE i \in S : \A j \in S : i <= j

Shorter(a, b) == IF Len(a) < Len(b) THEN Len(a) ELSE Len(b)

\* a.localeCompare(b) when r is the first place where the ranks differ (0 if
\* none) and c the first place where the characters differ (0 if none)
localeCompareAt(a, b, r, c) ==
    IF r > 0 THEN CollationRank(Char(a, r)) - CollationRank(Char(b, r))
    ELSE IF Len(a) # Len(b) THEN Len(a) - Len(b)
    ELSE IF c > 0 THEN (IF Char(a, c) \in LowerSet THEN -1 ELSE 1)
    ELSE 0

\* a.localeCompare(b): negative, zero or positive
localeCompare(a, b) ==
    localeCompareAt(a, b,
        LeastOr({i \in 1..Shorter(a, b) :
                   CollationRank(Char(a, i)) # CollationRank(Char(b, i))}, 0),
        LeastOr({i \in 1..Shorter(a, b) : Char(a, i) # Char(b, i)}, 0))

\* a comparator that forgets the month index and compares the texts only
compareXLexical(a, b) == localeCompare(ToStr(a), ToStr(b))

\* the comparator of xs.sort on the texts ta, tb and their month indexes
compareIndexed(ia, ib, ta, tb) ==
    IF IsFinite(ia) /\ IsFinite(ib) THEN ia.m - ib.m
    ELSE IF IsFinite(ia) THEN -1
    ELSE IF IsFinite(ib) THEN 1
    ELSE localeCompare(ta, tb)

compareTexts(ta, tb) ==
    compareIndexed(monthIndex(Str(ta)), monthIndex(Str(tb)), ta, tb)

\* the comparator of xs.sort
compareX(a, b) == compareTexts(ToStr(a), ToStr(b))

\* Array.prototype.sort with compareX: stable, so each value goes in front of
\* the first value that compares greater
InsertAt(seq, x, at) ==
    SubSeq(seq, 1, at - 1) \o <<x>> \o SubSeq(seq, at, Len(seq))

InsertSorted(sorted, x) ==
    InsertAt(sorted, x,
             LeastOr({i \in 1..Len(sorted) : compareX(sorted[i], x) > 0},
                     Len(sorted) + 1))

sortX(seq) ==
    LET sortedUpTo[i \in 0..Len(seq)] ==
            IF i = 0 THEN <<>> ELSE InsertSorted(sortedUpTo[i - 1], seq[i])
    IN  sortedUpTo[Len(seq)]

Contains(seq, x) == \E i \in 1..Len(seq) : seq[i] = x

\* a Map as its entries [x, row] in insertion order
MapHas(map, x) == \E j \in 1..Len(map) : map[j].x = x

\* map.get(x)
MapGet(map, x) == map[CHOOSE j \in 1..Len(map) : map[j].x = x].row

MapSet(map, x, row) ==
    IF MapHas(map, x)
    THEN [j \in 1..Len(map) |->
            IF map[j].x = x THEN [x |-> x, row |-> row] ELSE map[j]]
    ELSE Append(map, [x |-> x, row |-> row])

\* if (!map.has(x)) map.set(x, { [xKey]: x }); map.get(x)
WideRowOf(map, xKey, x) ==
    IF MapHas(map, x) THEN MapGet(map, x)
    ELSE Obj(<<[k |-> ToStr(xKey), v |-> x]>>)

\* a set that puts the newest value first
SetAddFront(seq, s) == IF Contains(seq, s) THEN seq ELSE <<s>> \o seq

\* seriesSet.add(s), the set in insertion order
SetAdd(seq, s) == IF Contains(seq, s) THEN seq ELSE Append(seq, s)

\* a pivot that keeps the metric as it was read
KeepMetric(v) == v

\* Number.isFinite(v) ? v : 0
FiniteOrZero(v) == IF IsFinite(v) THEN v ELSE IntNum(0)

\* the body of the forEach for a row with x value x, series value s, metric v
PivotStepOn(prev, xKey, x, s, v) ==
    [map |-> MapSet(prev.map, x,
                    SetField(WideRowOf(prev.map, xKey, x), s, FiniteOrZero(v))),
     series |-> SetAdd(prev.series, s)]

PivotStep(prev, r, xKey, seriesKey, yKey) ==
    PivotStepOn(prev, xKey, Get(r, xKey), Get(r, seriesKey),
                toNumber(Get(r, yKey)))

\* the forEach of pivotData: map holds, in insertion order, each x value with
\* its wide row; series holds the series values in insertion order
PivotFold(rows, xKey, seriesKey, yKey) ==
    LET step[i \in 0..Len(rows.a)] ==
            IF i = 0 THEN [map |-> <<>>, series |-> <<>>]
            ELSE PivotStep(step[i - 1], rows.a[i], xKey, seriesKey, yKey)
    IN  step[Len(rows.a)]

\* Array.from(xSet)
XsOf(map) == [j \in 1..Len(map) |-> map[j].x]

\* xs after the sort
PivotXs(rows, xKey, seriesKey, yKey) ==
    sortX(XsOf(PivotFold(rows, xKey, seriesKey, yKey).map))

\* { data: xs.map(x => map.get(x)), series: Array.from(seriesSet) }
PivotResult(folded, xs) ==
    [data |-> [i \in 1..Len(xs) |-> MapGet(folded.map, xs[i])],
     series |-> folded.series]

pivotData(rows, xKey, seriesKey, yKey) ==
    IF \E i \in 1..Len(rows.a) : ~IsObject(rows.a[i]) THEN Raised
    ELSE PivotResult(PivotFold(rows, xKey, seriesKey, yKey),
                     PivotXs(rows, xKey, seriesKey, yKey))

(***************************************************************************)
(* Claims about the candidates of resolveAxes                              *)
(***************************************************************************)
\* the columns of the first record, when resolveAxes has looked at them
SampleCols == keysOf(SampleOf(args[1]))
SampleNonNumeric == nonNumericCols(SampleOf(args[1]), SampleCols)
SampleNumeric == numericCols(SampleOf(args[1]), SampleCols)

\* the x-axis candidate by the precedence of the claim
ClaimedX ==
    LET timeNamed == find(SampleCols,
                          {c \in ColumnSet(SampleCols) : looksLikeTimeName(c)})
        geoNamed == MatchingCol(SampleCols, geoPrefs)
    IN  IF Truthy(timeNamed) THEN timeNamed
        ELSE IF Truthy(geoNamed) THEN geoNamed
        ELSE OrElse(find(SampleNonNumeric,
                         {c \in ColumnSet(SampleNonNumeric) : looksLikeTimeName(c)}),
                    OrElse(First(SampleNonNumeric), Null))

\* C17: before the swap the x-axis is the first column whose name has one of
\* month, date, period, quarter, year, with or without a plural s, between
\* underscores or the ends of the name; else the first geography column; else
\* the first non-numeric column with a time-like name; else the first
\* non-numeric column; else null. So sale_years goes before a geography
\* column and update_count is no time column.
C17_XCandidatePrecedence ==
    ResolvedRows => Candidates(args[1]).xKey = ClaimedX

\* the series candidate by the precedence of the claim, for the x-axis x
ClaimedSeries(x) ==
    LET others == {c \in ColumnSet(SampleNonNumeric) : Str(c) # x}
        productNamed ==
            find(SampleNonNumeric, {c \in others : nameMatches(c, productPrefs)})
        geoNamed ==
            find(SampleNonNumeric, {c \in others : nameMatches(c, geoPrefs)})
    IN  IF Truthy(productNamed) THEN productNamed
        ELSE IF Truthy(geoNamed) THEN geoNamed
        ELSE OrElse(find(SampleNonNumeric, others), Null)

\* C18: when there is an x-axis candidate, the series candidate is the first
\* non-numeric product or category column other than the x-axis; else the
\* first non-numeric geography column other than it; else the first
\* non-numeric column other than it; else null. No numeric column becomes
\* the series, and the second product column does when the first is the
\* x-axis.
C18_SeriesCandidatePrecedence ==
    (ResolvedRows /\ Truthy(Candidates(args[1]).xKey)) =>
      Candidates(args[1]).seriesKey = ClaimedSeries(Candidates(args[1]).xKey)

\* the metric by the precedence of the claim
ClaimedMetric ==
    LET matched(i) == {c \in ColumnSet(SampleNumeric) : RegExpTestI(metricPref[i], c)}
        ranks == {i \in 1..Len(metricPref) : matched(i) # {}}
    IN  IF ranks # {} THEN find(SampleNumeric, matched(LeastOr(ranks, 0)))
        ELSE OrElse(First(SampleNumeric), Null)

\* C19: the metric is the numeric column matching the keyword that comes
\* first in revenue_rm, revenue, total_amount, price, sales, total,
\* total_sales, quantity, qty, count (with columns count then revenue it is
\* revenue); else the first numeric column; else null.
C19_MetricByKeywordPriority ==
    ResolvedRows => Candidates(args[1]).yKey = ClaimedMetric

\* C20: in every result of resolveAxes the values of xKey, seriesKey and yKey
\* that are not null are three different columns.
C20_OneRolePerColumn ==
    (fn = "resolveAxes" /\ Returned) =>
      /\ ret.xKey # Null => ret.xKey # ret.seriesKey /\ ret.xKey # ret.yKey
      /\ ret.seriesKey # Null => ret.seriesKey # ret.yKey

\* the x-axis and the series are never the same column
XAndSeriesDiffer ==
    (fn = "resolveAxes" /\ Returned /\ ret.xKey # Null) =>
      ret.xKey # ret.seriesKey

(***************************************************************************)
(* Calls of pivotData                                                      *)
(***************************************************************************)
MaxPivotRows == 3

PivotXValues == {Str("Feb 2024"), Str("Jan 2024"), Str("West"), Str("East")}
\* "month" is also the name of the x column
PivotSeriesValues == {Str("North"), Str("South"), Str("month")}
\* the metric of the i-th input row
MetricOfRow(i) ==
    CASE i % 4 = 1 -> IntNum(10)
      [] i % 4 = 2 -> IntNum(5)
      [] i % 4 = 3 -> IntNum(7)
      [] OTHER -> Str("a-b")

LongRow(x, s, y) ==
    RowOf(<<"region", "month", "revenue">>, <<s, x, y>>)

GeneratedLongRows ==
    {Arr([i \in 1..Len(xss) |-> LongRow(xss[i][1], xss[i][2], MetricOfRow(i))]) :
        xss \in SeqsUpTo(PivotXValues \X PivotSeriesValues, MaxPivotRows)}

FebJanMarRows ==
    Arr(<<LongRow(Str("Feb 2024"), Str("North"), IntNum(7)),
          LongRow(Str("Jan 2024"), Str("North"), IntNum(10)),
          LongRow(Str("Mar 2024"), Str("South"), IntNum(5))>>)

\* records that lack the metric, the series or the x column, or have a
\* column more
IrregularRows ==
    {LongRow(Str("Jan 2024"), Str("North"), IntNum(10)),
     RowOf(<<"region", "month">>, <<Str("North"), Str("Jan 2024")>>),
     RowOf(<<"month", "revenue">>, <<Str("Jan 2024"), IntNum(5)>>),
     RowOf(<<"region", "revenue">>, <<Str("South"), IntNum(7)>>),
     RowOf(<<"region", "month", "extra">>,
           <<Str("South"), Str("Feb 2024"), IntNum(1)>>),
     Obj(<<>>)}

IrregularLongRows ==
    {Arr(rs) : rs \in SeqsUpTo(IrregularRows, MaxPivotRows)}

PivotInputs == GeneratedLongRows \cup IrregularLongRows \cup {FebJanMarRows}

InitPivot ==
    /\ fn = "pivotData"
    /\ args \in {<<rows, Str("month"), Str("region"), Str("revenue")>> :
                    rows \in PivotInputs}
    /\ ret = Pending
    /\ app = NoApp

CallPivotData ==
    /\ fn = "pivotData"
    /\ ret = Pending
    /\ ret' = pivotData(args[1], args[2], args[3], args[4])
    /\ UNCHANGED <<fn, args, app>>

NextPivot == CallPivotData

SpecPivot == InitPivot /\ [][NextPivot]_vars

(***************************************************************************)
(* Claims about pivotData                                                  *)
(***************************************************************************)
Pivoted == fn = "pivotData" /\ Returned /\ ret # Raised

\* the x values and the series values of the input rows
InputXs(rows, xKey) == {Get(rows.a[i], xKey) : i \in 1..Len(rows.a)}
InputSeries(rows, seriesKey) == {Get(rows.a[i], seriesKey) : i \in 1..Len(rows.a)}

\* some input row has the pair (x, s)
PairSeen(rows, xKey, seriesKey, x, s) ==
    \E i \in 1..Len(rows.a) :
        Get(rows.a[i], xKey) = x /\ Get(rows.a[i], seriesKey) = s

\* the wide rows are one per distinct x value, in the order xs
OneRowPerX(rows, xKey, xs) ==
    /\ Len(ret.data) = Len(xs)
    /\ Len(xs) = Cardinality(InputXs(rows, xKey))
    /\ {xs[i] : i \in 1..Len(xs)} = InputXs(rows, xKey)

\* C8: pivotData returns exactly one wide row per distinct x value, and the
\* wide row of x has a field for series value s if and only if some input row
\* has the pair (x, s): no zero-filling, no cross product.
C8_FieldIffPairSeen ==
    Pivoted =>
      LET rows == args[1]
          xs == PivotXs(rows, args[2], args[3], args[4])
      IN  /\ OneRowPerX(rows, args[2], xs)
          /\ \A i \in 1..Len(xs) : \A s \in InputSeries(rows, args[3]) :
               HasKey(ret.data[i], ToStr(s))
                 <=> PairSeen(rows, args[2], args[3], xs[i], s)

\* the same, for the series values whose field name is not the name of the
\* x column
FieldIffPairSeenApartFromXColumn ==
    Pivoted =>
      LET rows == args[1]
          xs == PivotXs(rows, args[2], args[3], args[4])
      IN  /\ OneRowPerX(rows, args[2], xs)
          /\ \A i \in 1..Len(xs) : \A s \in InputSeries(rows, args[3]) :
               ToStr(s) # ToStr(args[2]) =>
                 (HasKey(ret.data[i], ToStr(s))
                    <=> PairSeen(rows, args[2], args[3], xs[i], s))

\* the month index of an x value, as the sort sees it
XIndex(x) == monthIndex(Str(ToStr(x)))

\* xs is in the order of the claim: finite month indexes ascending, then the
\* others by localeCompare of their texts
ChronologicalThenLexical(xs) ==
    \A i \in 1..Len(xs), j \in 1..Len(xs) :
        i < j =>
          /\ ~(~IsFinite(XIndex(xs[i])) /\ IsFinite(XIndex(xs[j])))
          /\ (IsFinite(XIndex(xs[i])) /\ IsFinite(XIndex(xs[j])))
               => XIndex(xs[i]).m <= XIndex(xs[j]).m
          /\ (~IsFinite(XIndex(xs[i])) /\ ~IsFinite(XIndex(xs[j])))
               => localeCompare(ToStr(xs[i]), ToStr(xs[j])) <= 0

\* no row of x writes a series field over the field of the x column
XFieldKept(rows, xKey, seriesKey, x) ==
    \A i \in 1..Len(rows.a) :
        Get(rows.a[i], xKey) = x => ToStr(Get(rows.a[i], seriesKey)) # ToStr(xKey)

\* C9: the wide rows come with the x values of finite month index first, in
\* ascending month index, then the x values of infinite month index in the
\* lexical order of their texts; x values first seen as Feb 2024, Jan 2024,
\* Mar 2024 come out as Jan 2024, Feb 2024, Mar 2024.
C9_RowsChronologicalThenLexical ==
    Pivoted =>
      LET rows == args[1]
          xs == PivotXs(rows, args[2], args[3], args[4])
      IN  /\ OneRowPerX(rows, args[2], xs)
          /\ ChronologicalThenLexical(xs)
          /\ \A i \in 1..Len(xs) :
               XFieldKept(rows, args[2], args[3], xs[i])
                 => Get(ret.data[i], args[2]) = xs[i]
          /\ rows = FebJanMarRows =>
               [i \in 1..3 |-> Get(ret.data[i], args[2])]
                 = <<Str("Jan 2024"), Str("Feb 2024"), Str("Mar 2024")>>

C9_Witness ==
    /\ Pivoted
    /\ args[1] = FebJanMarRows
    /\ Len(ret.data) = 3
    /\ Get(ret.data[1], args[2]) = Str("Jan 2024")
    /\ Get(ret.data[3], args[2]) = Str("Mar 2024")

(***************************************************************************)
(* Irregular result sets                                                   *)
(***************************************************************************)
MadeOfRecords(rows) ==
    IsArray(rows) /\ \A i \in 1..Len(rows.a) : IsObject(rows.a[i])

IsRole(v) == v = Null \/ IsString(v)

\* row i is the last row of rows to write the field of its series value into
\* the wide row of its x value
LastWriter(rows, xKey, seriesKey, i) ==
    \A j \in (i + 1)..Len(rows.a) :
        \/ Get(rows.a[j], xKey) # Get(rows.a[i], xKey)
        \/ ToStr(Get(rows.a[j], seriesKey)) # ToStr(Get(rows.a[i], seriesKey))

\* the wide row of the x value of row i
WideRowOfInput(rows, xKey, seriesKey, yKey, i) ==
    ret.data[CHOOSE k \in 1..Len(ret.data) :
               PivotXs(rows, xKey, seriesKey, yKey)[k] = Get(rows.a[i], xKey)]

\* C11: on a result set made of records, also one whose later records lack
\* keys of the first or have more, resolveAxes and pivotData return without
\* raising; resolveAxes returns roles that are column names or null, and a
\* row without the metric key puts 0 into the wide row of its x value.
C11_IrregularRecordsDoNotRaise ==
    /\ (fn = "resolveAxes" /\ Returned /\ MadeOfRecords(args[1])) =>
          /\ ret # Raised
          /\ IsRole(ret.xKey) /\ IsRole(ret.seriesKey) /\ IsRole(ret.yKey)
          /\ ret.isMulti \in BOOLEAN
    /\ (fn = "pivotData" /\ Returned /\ MadeOfRecords(args[1])) =>
          /\ ret # Raised
          /\ \A i \in 1..Len(args[1].a) :
                (/\ ~HasKey(args[1].a[i], ToStr(args[4]))
                 /\ LastWriter(args[1], args[2], args[3], i))
                  => Get(WideRowOfInput(args[1], args[2], args[3], args[4], i),
                         Get(args[1].a[i], args[3])) = IntNum(0)

\* a row without region and a row without revenue, pivoted
C11_Witness ==
    /\ fn = "pivotData" /\ Returned /\ ret # Raised
    /\ Len(args[1].a) = 2
    /\ ~HasKey(args[1].a[1], "region")
    /\ ~HasKey(args[1].a[2], "revenue")
    /\ Get(ret.data[1], Str("North")) = IntNum(0)
    /\ Get(ret.data[1], Undefined) = IntNum(5)

(***************************************************************************)
(* renderChart                                                             *)
(***************************************************************************)
\* the two messages and the charts renderChart returns: a chart is its
\* element, the rows and the x column it is given and the columns it draws
Unable == [t |-> "message", text |-> "Unable to resolve chart axes from the result."]
Failed == [t |-> "message", text |-> "Chart failed to render. Check console for details."]
Chart(el, multi, data, x, keys) ==
    [t |-> "chart", el |-> el, multi |-> multi, data |-> data, x |-> x,
     keys |-> keys]

\* wide.map(row => row[ex])
SampleX(wide, ex) == [i \in 1..Len(wide) |-> Get(wide[i], ex)]

\* series.map(s => <Bar dataKey={String(s)} />)
SeriesKeys(series) == [i \in 1..Len(series) |-> Str(ToStr(series[i]))]

\* the three returns of the multi-series branch
MultiElement(timeLike, type) ==
    IF timeLike /\ type = "line" THEN "LineChart" ELSE "BarChart"

\* the multi-series branch once pivotData has returned or raised
DrawMulti(pivoted, ex, type) ==
    IF pivoted = Raised THEN Failed
    ELSE Chart(MultiElement(isTimeLikeAxis(ex, SampleX(pivoted.data, ex)), type),
               TRUE, Arr(pivoted.data), ex, SeriesKeys(pivoted.series))

\* switch (type): the pie maps over data, which raises unless it is an array
DrawSingle(data, ex, ey, type) ==
    CASE type = "bar" -> Chart("BarChart", FALSE, data, ex, <<ey>>)
      [] type = "line" -> Chart("LineChart", FALSE, data, ex, <<ey>>)
      [] type = "pie" -> IF IsArray(data)
                         THEN Chart("PieChart", FALSE, data, ex, <<ey>>)
                         ELSE Failed
      [] OTHER -> Null

\* the guard after the fallback, then the two branches
Draw(data, axes, ex, ey, type) ==
    IF ~Truthy(ex) \/ ~Truthy(ey) THEN Unable
    ELSE IF axes.isMulti
    THEN DrawMulti(pivotData(data, ex, axes.seriesKey, ey), ex, type)
    ELSE DrawSingle(data, ex, ey, type)

\* a renderer that never looks at the explicit keys
RenderIgnoringExplicit(data, xKey, yKey, type, axes) ==
    Draw(data, axes, axes.xKey, axes.yKey, type)

\* const ex = xKey || rx; const ey = yKey || ry;
RenderResolved(data, xKey, yKey, type, axes) ==
    Draw(data, axes, OrElse(xKey, axes.xKey), OrElse(yKey, axes.yKey), type)

\* renderChart(data, xKey, yKey, type, color, xLabel, yLabel): the colour and
\* the labels only decorate the chart
renderChart(data, xKey, yKey, type) ==
    RenderResolved(data, xKey, yKey, type, resolveAxes(data))

(***************************************************************************)
(* Calls of renderChart                                                    *)
(***************************************************************************)
RenderCols == {"month", "region", "revenue"}

\* an x column that is not time-like, one of whose values is a month
MixedXRows ==
    Arr(<<RowOf(<<"name", "region", "revenue">>,
                <<Str("a-b"), Str("West"), IntNum(10)>>),
          RowOf(<<"name", "region", "revenue">>,
                <<Str("a-b"), Str("Jan 2024"), IntNum(5)>>),
          RowOf(<<"name", "region", "revenue">>,
                <<Str("a-b"), Str("East"), IntNum(7)>>)>>)

\* months out of order and no series column
UnsortedSingleRows ==
    Arr(<<RowOf(<<"month", "revenue">>, <<Str("Feb 2024"), IntNum(10)>>),
          RowOf(<<"month", "revenue">>, <<Str("Jan 2024"), IntNum(5)>>)>>)

RenderData ==
    {rows \in GeneratedResultSets :
        \A i \in 1..Len(rows.a[1].o) : rows.a[1].o[i].k \in RenderCols}
      \cup {Null, Arr(<<>>), Arr(<<ShoesRow>>), Arr(<<ShoesRow, Null>>),
            FebJanMarRows, MixedXRows, UnsortedSingleRows}

\* Object.keys(results[0])[n - 1], what the message list passes
NthKey(data, n) ==
    IF IsArray(data) /\ Len(data.a) > 0 /\ Len(keysOf(data.a[1])) >= n
    THEN Str(keysOf(data.a[1])[n]) ELSE Undefined

\* the explicit keys: those of the message list, none, or one of the two
ExplicitKeys(data) ==
    {<<NthKey(data, 1), NthKey(data, 2)>>, <<Undefined, Undefined>>,
     <<NthKey(data, 1), Undefined>>, <<Undefined, NthKey(data, 2)>>}

ChartTypes == {"bar", "line", "pie", "table"}

InitRender ==
    /\ fn = "renderChart"
    /\ args \in UNION {{<<data, keys[1], keys[2], type>> :
                           keys \in ExplicitKeys(data), type \in ChartTypes} :
                         data \in RenderData}
    /\ ret = Pending
    /\ app = NoApp

CallRenderChart ==
    /\ fn = "renderChart"
    /\ ret = Pending
    /\ ret' = renderChart(args[1], args[2], args[3], args[4])
    /\ UNCHANGED <<fn, args, app>>

NextRender == CallRenderChart

SpecRender == InitRender /\ [][NextRender]_vars

(***************************************************************************)
(* Claims about renderChart                                                *)
(***************************************************************************)
Rendered == fn = "renderChart" /\ Returned

\* C12: renderChart draws with the explicit xKey and yKey where they are
\* given and with the resolved ones where they are missing; whether it pivots
\* and on which series column is what resolveAxes computed from the data; and
\* when the x or the metric column is still missing it returns the "unable
\* to resolve" message, having pivoted and drawn nothing.
C12_ExplicitKeysReplaceResolved ==
    Rendered =>
      LET axes == resolveAxes(args[1])
          ex == IF Truthy(args[2]) THEN args[2] ELSE axes.xKey
          ey == IF Truthy(args[3]) THEN args[3] ELSE axes.yKey
      IN  /\ (~Truthy(ex) \/ ~Truthy(ey)) <=> ret = Unable
          /\ ret.t = "chart" =>
                /\ ret.x = ex
                /\ ret.multi = axes.isMulti
                /\ ~ret.multi => ret.keys = <<ey>> /\ ret.data = args[1]
                /\ ret.multi =>
                      ret.data = Arr(pivotData(args[1], ex, axes.seriesKey, ey).data)

\* the keys of the message list, not the resolved ones, reach a pivoted chart
C12_Witness ==
    /\ Rendered
    /\ ret.t = "chart"
    /\ ret.multi
    /\ args[2] = Str("region")
    /\ resolveAxes(args[1]).xKey = Str("month")
    /\ ret.x = Str("region")

(***************************************************************************)
(* Calls of resolveAxes one after another                                  *)
(***************************************************************************)
MaxCalls == 3

SessionData ==
    {Arr(<<ShoesRow>>), FebJanMarRows, Arr(<<>>), Null,
     Arr(<<RowOf(<<"month", "revenue">>, <<Str("Jan 2024"), IntNum(100)>>)>>),
     Arr(<<RowOf(<<"name", "update">>, <<Str("a-b"), Str("a-b")>>),
           RowOf(<<"name">>, <<Str("2024-01")>>)>>)}

\* a resolver whose patterns remember where the last search ended, so that
\* every second call finds no column
ResolveAlternating(calls, results, rows) ==
    IF Len(calls) % 2 = 1 THEN EmptyAxes ELSE resolveAxes(rows)

\* a call made after the calls calls, which returned results: resolveAxes
\* reads and writes its own constants and variables only, and the regular
\* expressions it tests with are made anew and carry no global flag
ResolveAfter(calls, results, rows) == resolveAxes(rows)

\* args is the result sets resolved so far, ret what the calls returned
InitSession ==
    /\ fn = "session"
    /\ args = <<>>
    /\ ret = <<>>
    /\ app = NoApp

CallInSession ==
    /\ fn = "session"
    /\ Len(args) < MaxCalls
    /\ \E rows \in SessionData :
          /\ args' = Append(args, rows)
          /\ ret' = Append(ret, ResolveAfter(args, ret, rows))
    /\ UNCHANGED <<fn, app>>

NextSession == CallInSession

SpecSession == InitSession /\ [][NextSession]_vars

AliasedAddress(heap, map, r, x) ==
    IF MapHas(map, x) THEN MapGet(map, x) ELSE r

\* if (!map.has(x)) map.set(x, { [xKey]: x }); map.get(x): the address the
\* Map holds for x, or that of the record the object literal creates
WideAddress(heap, map, r, x) ==
    IF MapHas(map, x) THEN MapGet(map, x) ELSE Len(heap) + 1

\* heap once the record at address at exists
HeapWithRow(heap, at, xKey, x) ==
    IF at > Len(heap) THEN Append(heap, Obj(<<[k |-> ToStr(xKey), v |-> x]>>))
    ELSE heap

\* heap after record[s] = v on the record at address at
HeapWrite(heap, at, s, v) == [heap EXCEPT ![at] = SetField(heap[at], s, v)]

HeapStepAt(prev, xKey, x, s, v, at) ==
    [heap |-> HeapWrite(HeapWithRow(prev.heap, at, xKey, x), at, s,
                        FiniteOrZero(v)),
     map |-> MapSet(prev.map, x, at),
     series |-> SetAdd(prev.series, s)]

\* the body of the forEach for the record at address r
HeapStep(prev, r, xKey, seriesKey, yKey) ==
    HeapStepAt(prev, xKey, Get(prev.heap[r], xKey), Get(prev.heap[r], seriesKey),
               toNumber(Get(prev.heap[r], yKey)),
               WideAddress(prev.heap, prev.map, r, Get(prev.heap[r], xKey)))

HeapFold(heap, rows, xKey, seriesKey, yKey) ==
    LET step[i \in 0..Len(rows)] ==
            IF i = 0 THEN [heap |-> heap, map |-> <<>>, series |-> <<>>]
            ELSE HeapStep(step[i - 1], rows[i], xKey, seriesKey, yKey)
    IN  step[Len(rows)]

HeapResult(folded, xs) ==
    [heap |-> folded.heap,
     data |-> [i \in 1..Len(xs) |-> MapGet(folded.map, xs[i])],
     series |-> folded.series]

\* pivotData on the result set rows of heap: the heap it leaves, the
\* addresses of the wide rows and the series values
pivotDataInHeap(heap, rows, xKey, seriesKey, yKey) ==
    HeapResult(HeapFold(heap, rows, xKey, seriesKey, yKey),
               sortX(XsOf(HeapFold(heap, rows, xKey, seriesKey, yKey).map)))

\* the records at the addresses rows
Deref(heap, rows) == [i \in 1..Len(rows) |-> heap[rows[i]]]

\* resolveAxes on the result set rows of heap: it assigns to its own
\* variables only, so the heap it leaves is the heap it found
resolveAxesInHeap(heap, rows) ==
    [heap |-> heap, axes |-> resolveAxes(Arr(Deref(heap, rows)))]

FrameResolveData == IrregularResultSets \cup {Arr(<<ShoesRow>>), FebJanMarRows}

AllOf(heap) == [i \in 1..Len(heap) |-> i]

InitFrame ==
    \/ /\ fn = "pivotData of records"
       /\ args \in {<<rows.a, AllOf(rows.a), Str("month"), Str("region"),
                       Str("revenue")>> : rows \in PivotInputs}
       /\ ret = Pending
       /\ app = NoApp
    \/ /\ fn = "resolveAxes of records"
       /\ args \in {<<rows.a, AllOf(rows.a)>> : rows \in FrameResolveData}
       /\ ret = Pending
       /\ app = NoApp

CallPivotDataOfRecords ==
    /\ fn = "pivotData of records"
    /\ ret = Pending
    /\ ret' = pivotDataInHeap(args[1], args[2], args[3], args[4], args[5])
    /\ UNCHANGED <<fn, args, app>>

CallResolveAxesOfRecords ==
    /\ fn = "resolveAxes of records"
    /\ ret = Pending
    /\ ret' = resolveAxesInHeap(args[1], args[2])
    /\ UNCHANGED <<fn, args, app>>

NextFrame == CallPivotDataOfRecords \/ CallResolveAxesOfRecords

SpecFrame == InitFrame /\ [][NextFrame]_vars

MaxSamples == 17

AxisNames ==
    {Str("month"), Str("sale_years"), Str("Order_Date"), Str("name"),
     Str("update"), Str(""), Null, Undefined}

\* sample values with a finite month index, and without
ParseableSamples == <<Str("2024-01"), Str("Jan 2024"), IntNum(2024)>>
OtherSamples == <<Str("a-b"), Null, Undefined, Str("")>>

Cycled(values, n) == [i \in 1..n |-> values[((i - 1) % Len(values)) + 1]]

\* p values with a finite month index and q without, either kind first
SampleLists ==
    UNION {{Cycled(ParseableSamples, p) \o Cycled(OtherSamples, q),
            Cycled(OtherSamples, q) \o Cycled(ParseableSamples, p)} :
             <<p, q>> \in {pq \in (0..MaxSamples) \X (0..MaxSamples) :
                             pq[1] + pq[2] <= MaxSamples}}

InitTimeLike ==
    /\ fn = "isTimeLikeAxis"
    /\ args \in {<<name, values>> : name \in AxisNames, values \in SampleLists}
    /\ ret = Pending
    /\ app = NoApp

CallIsTimeLikeAxis ==
    /\ fn = "isTimeLikeAxis"
    /\ ret = Pending
    /\ ret' = Bool(isTimeLikeAxis(args[1], args[2]))
    /\ UNCHANGED <<fn, args, app>>

NextTimeLike == CallIsTimeLikeAxis

SpecTimeLike == InitTimeLike /\ [][NextTimeLike]_vars

\* a sample value whose text has a finite month index; null and undefined
\* have none
IsParseable(v) ==
    v.t \notin {"null", "undefined"} /\ IsFinite(monthIndex(Str(ToStr(v))))

\* the number of values with a finite month index among the first k
ParseableAmong(values, k) ==
    Cardinality({i \in 1..k : IsParseable(values[i])})

\* C21: for a non-empty name, isTimeLikeAxis is true exactly when the name
\* matches the time-keyword pattern or, with k = min(15, number of samples)
\* and k > 0, at least ceil(0.6 * k) of the first k sample values have a
\* finite month index; null and undefined sample values count as having none.
C21_TimeLikeByNameOrSamples ==
    (fn = "isTimeLikeAxis" /\ Returned /\ Truthy(args[1])) =>
      LET k == IF Len(args[2]) < 15 THEN Len(args[2]) ELSE 15
      IN  ret.b <=>
            \/ looksLikeTimeName(args[1].s)
            \/ /\ k > 0
               /\ 10 * ParseableAmong(args[2], k) >= 6 * k

\* nine of the first fifteen values parse, fewer than six tenths of all
C21_Witness ==
    /\ fn = "isTimeLikeAxis" /\ Returned
    /\ args[1] = Str("name")
    /\ Len(args[2]) = 17
    /\ ParseableAmong(args[2], 15) = 9
    /\ ParseableAmong(args[2], 17) = 9
    /\ ret = Bool(TRUE)

(***************************************************************************)
(* Claims about the fields and the series of pivotData                     *)
(***************************************************************************)
\* the metric of input row i as pivotData normalizes it
NormalizedMetric(rows, yKey, i) ==
    IF IsFinite(toNumber(Get(rows.a[i], yKey)))
    THEN toNumber(Get(rows.a[i], yKey)) ELSE IntNum(0)

\* C22: in the wide row of x the field for series value s is the normalized
\* metric of the last input row with the pair (x, s), 0 when that metric is
\* not a finite number; earlier rows with the pair leave no trace, and every
\* series field of every wide row is a finite number.
C22_LastWriteWins ==
    Pivoted =>
      /\ \A i \in 1..Len(args[1].a) :
            LastWriter(args[1], args[2], args[3], i) =>
              Get(WideRowOfInput(args[1], args[2], args[3], args[4], i),
                  Get(args[1].a[i], args[3]))
                = NormalizedMetric(args[1], args[4], i)
      /\ \A k \in 1..Len(ret.data) : \A f \in 1..Len(ret.data[k].o) :
            ret.data[k].o[f].k # ToStr(args[2]) => IsFinite(ret.data[k].o[f].v)

\* two rows with the same pair and different metrics: the second one stays
C22_Witness ==
    /\ Pivoted
    /\ Len(args[1].a) = 2
    /\ Get(args[1].a[1], args[2]) = Get(args[1].a[2], args[2])
    /\ Get(args[1].a[1], args[3]) = Str("North")
    /\ Get(args[1].a[2], args[3]) = Str("North")
    /\ Get(args[1].a[1], args[4]) = IntNum(10)
    /\ Get(args[1].a[2], args[4]) = IntNum(5)
    /\ Get(ret.data[1], Str("North")) = IntNum(5)

\* the series values of the rows in the order they are first met
RECURSIVE FirstSeen(_, _)
FirstSeen(rows, seriesKey) ==
    IF Len(rows) = 0 THEN <<>>
    ELSE LET before == FirstSeen(SubSeq(rows, 1, Len(rows) - 1), seriesKey)
             s == Get(rows[Len(rows)], seriesKey)
         IN  IF \E j \in 1..Len(before) : before[j] = s THEN before
             ELSE Append(before, s)

\* C23: the series list of pivotData holds every distinct series value of the
\* input rows once, in the order of first occurrence, whatever the order the
\* sort gives the x values.
C23_SeriesInFirstSeenOrder ==
    Pivoted =>
      /\ ret.series = FirstSeen(args[1].a, args[3])
      /\ \A i \in 1..Len(ret.series), j \in 1..Len(ret.series) :
            ret.series[i] = ret.series[j] => i = j
      /\ {ret.series[i] : i \in 1..Len(ret.series)} = InputSeries(args[1], args[3])

\* the sort puts the x values in another order than the input and the series
\* keep theirs
C23_Witness ==
    /\ Pivoted
    /\ args[1] = FebJanMarRows
    /\ Get(ret.data[1], args[2]) = Str("Jan 2024")
    /\ ret.series = <<Str("North"), Str("South")>>

(***************************************************************************)
(* Claims about the rows and the columns of the chart                      *)
(***************************************************************************)
\* the x values of the rows the chart is given
ChartXs == SampleX(ret.data.a, ret.x)

Lexical(xs) ==
    \A i \in 1..Len(xs), j \in 1..Len(xs) :
        i < j => localeCompare(ToStr(xs[i]), ToStr(xs[j])) <= 0

\* C24: when the x-axis of a pivoted chart is not time-like by its name and
\* its values, the rows of the chart are in the lexical order of their x
\* texts, the x values with a finite month index not ahead of the others.
C24_NotTimeLikeIsLexical ==
    (Rendered /\ ret.t = "chart" /\ ret.multi
       /\ ~isTimeLikeAxis(ret.x, ChartXs))
      => Lexical(ChartXs)

\* C25: when there is no series role the rows given to the chart are the
\* input rows in the sorted order of their x values, chronological for a
\* time-like x-axis and lexical otherwise, not in the order they came in.
C25_SingleSeriesRowsSorted ==
    (Rendered /\ ret.t = "chart" /\ ~ret.multi /\ MadeOfRecords(ret.data)) =>
      IF isTimeLikeAxis(ret.x, ChartXs) THEN ChronologicalThenLexical(ChartXs)
      ELSE Lexical(ChartXs)

\* C28: whenever renderChart pivots, the x column and the metric column it
\* gives pivotData are not the series column, also when they are the first
\* and second column of the first record passed as explicit keys.
C28_PivotColumnsDistinct ==
    (Rendered /\ ret.t = "chart" /\ ret.multi) =>
      /\ ret.x # resolveAxes(args[1]).seriesKey
      /\ OrElse(args[3], resolveAxes(args[1]).yKey)
           # resolveAxes(args[1]).seriesKey

(***************************************************************************)
(* Claims about the roles and the x field                                  *)
(***************************************************************************)
\* C26: whenever resolveAxes returns an xKey and a seriesKey that are both
\* not null they are different columns, whichever way the series was chosen
\* and whether or not the two were swapped; so isMulti is what it would be
\* without its xKey !== seriesKey test.
C26_XAndSeriesNeverSame ==
    (fn = "resolveAxes" /\ Returned) =>
      /\ (ret.xKey # Null /\ ret.seriesKey # Null) => ret.xKey # ret.seriesKey
      /\ ResolvedRows =>
           ret.isMulti
             = (/\ Truthy(ret.xKey) /\ Truthy(ret.seriesKey) /\ Truthy(ret.yKey)
                /\ IsFinite(toNumber(Get(SampleOf(args[1]), ret.yKey))))

\* the first product column is the x-axis and the series is another column
C26_Witness ==
    /\ ResolvedRows
    /\ keysOf(SampleOf(args[1])) = <<"category", "name", "product">>
    /\ ret.xKey = Str("category")
    /\ ret.seriesKey = Str("name")

\* C27: in every wide row of pivotData the field named by the x column holds
\* the x value of the row; no series field is written over it, also when the
\* text of a series value is the name of the x column.
C27_XFieldHoldsX ==
    Pivoted =>
      \A k \in 1..Len(ret.data) :
          Get(ret.data[k], args[2])
            = PivotXs(args[1], args[2], args[3], args[4])[k]

(***************************************************************************)
(* The App component: the selected database, the history and localStorage  *)
(*                                                                         *)
(* app holds what the component rendered last (selectedDb, history), the   *)
(* items of localStorage, the setHistory updates that wait for a render    *)
(* (updates), and the passive effects of the last commit that have not run *)
(* yet (effects).  React runs the effects of a commit in the order of      *)
(* their declaration and before the next render; a setHistory made inside  *)
(* an effect is rendered later, and an event handler may run in between.   *)
(*                                                                         *)
(* The text of a history entry is the name of the database the question    *)
(* was asked on, so that an entry tells whose it is.                       *)
(***************************************************************************)
Databases == {"demo", "sales", "hr"}
MaxAsked == 2
\* the most setHistory updates that wait when an event handler runs
MaxWaiting == 2
HistoryLimit == 200

historyKey(db) == "nl_sql_history_v180_" \o db

StorageKeys == {"selected_db"} \cup {historyKey(db) : db \in Databases}

\* the entry addToHistory makes of a question asked on db
Entry(db) == [text |-> db]

\* JSON.stringify(history): the text of the array
stringify(history) == [t |-> "json", v |-> history]

\* if (!raw) return []; try { return JSON.parse(raw); } catch { return []; }
parseOrEmpty(raw) == IF raw.t = "json" THEN raw.v ELSE <<>>

\* localStorage.getItem('selected_db') || 'demo'
SelectedOrDemo(item) == IF item.t = "string" /\ item.s # "" THEN item.s ELSE "demo"

Take(s, n) == IF Len(s) <= n THEN s ELSE SubSeq(s, 1, n)

\* the updaters handed to setHistory: () => parsed, and
\* prev => [entry, ...prev].slice(0, 200)
SetTo(history) == [op |-> "set", history |-> history, entry |-> Entry("")]
AddEntry(entry) == [op |-> "add", history |-> <<>>, entry |-> entry]

ApplyUpdate(prev, u) ==
    IF u.op = "set" THEN u.history
    ELSE Take(<<u.entry>> \o prev, HistoryLimit)

RECURSIVE ApplyUpdates(_, _)
ApplyUpdates(prev, us) ==
    IF us = <<>> THEN prev
    ELSE ApplyUpdates(ApplyUpdate(prev, Head(us)), Tail(us))

\* the two effects, each closed over the selectedDb and the history of the
\* render that scheduled it
LoadEffect(db, history) == [effect |-> "load", selectedDb |-> db, history |-> history]
SaveEffect(db, history) == [effect |-> "save", selectedDb |-> db, history |-> history]

\* a commit schedules the effects whose dependencies changed: the first
\* depends on [selectedDb], the second on [history, selectedDb]
EffectsOfCommit(dbChanged, db, history) ==
    IF dbChanged THEN <<LoadEffect(db, history), SaveEffect(db, history)>>
    ELSE <<SaveEffect(db, history)>>

\* the effect that saves the history writes the render's history under the
\* render's key, whatever a setHistory of the same commit asked for
SaveUnderKey(a, e) ==
    [a EXCEPT !.localStorage[historyKey(e.selectedDb)] = stringify(e.history)]

\* the effect of [selectedDb]: save the selection, read the history of the
\* database and hand it to setHistory
LoadHistory(a, e) ==
    [a EXCEPT !.localStorage["selected_db"] = Str(e.selectedDb),
              !.updates = Append(a.updates,
                 SetTo(parseOrEmpty(a.localStorage[historyKey(e.selectedDb)])))]

RunEffect(a, e) ==
    IF e.effect = "load" THEN LoadHistory(a, e) ELSE SaveUnderKey(a, e)

RECURSIVE RunEffectsOf(_, _)
RunEffectsOf(a, es) ==
    IF es = <<>> THEN a
    ELSE RunEffectsOf(RunEffect(a, Head(es)), Tail(es))

\* the states of the two useState initialisers and the effects of the mount;
\* asked counts the questions asked so far, and overlapped records that a
\* database was selected while a setHistory was waiting for its render
Mounted(storage, db, history) ==
    [selectedDb |-> db, history |-> history, localStorage |-> storage,
     updates |-> <<>>, effects |-> EffectsOfCommit(TRUE, db, history),
     asked |-> 0, overlapped |-> FALSE]

MountedOn(storage, db) ==
    Mounted(storage, db, parseOrEmpty(storage[historyKey(db)]))

\* an earlier visit saved one question under the key of every database, and
\* maybe the selection
SavedStorage(selected) ==
    [k \in StorageKeys |->
        IF k = "selected_db" THEN selected
        ELSE stringify(<<Entry(CHOOSE db \in Databases : historyKey(db) = k)>>)]

SavedSelections == {Null} \cup {Str(db) : db \in Databases}

InitHistory ==
    /\ fn = "App"
    /\ args = <<>>
    /\ ret = <<>>
    /\ \E selected \in SavedSelections :
          app = MountedOn(SavedStorage(selected), SelectedOrDemo(selected))

\* React runs the passive effects of the last commit, in order
RunEffects ==
    /\ fn = "App"
    /\ app.effects # <<>>
    /\ app' = [RunEffectsOf(app, app.effects) EXCEPT !.effects = <<>>]
    /\ UNCHANGED <<fn, args, ret>>

\* the render React makes for the setHistory calls that wait
RenderHistory ==
    /\ fn = "App"
    /\ app.effects = <<>>
    /\ app.updates # <<>>
    /\ app' = [app EXCEPT
                 !.history = ApplyUpdates(app.history, app.updates),
                 !.updates = <<>>,
                 !.effects = EffectsOfCommit(FALSE, app.selectedDb,
                                ApplyUpdates(app.history, app.updates))]
    /\ UNCHANGED <<fn, args, ret>>

\* the render of an event handler takes the waiting updates with it, or
\* leaves them to the render React has scheduled for them
RenderedHistory(a, own, withWaiting) ==
    IF withWaiting THEN ApplyUpdates(a.history, a.updates \o own)
    ELSE ApplyUpdates(a.history, own)

WaitingAfter(a, own, withWaiting) ==
    IF withWaiting \/ a.updates = <<>> THEN <<>> ELSE a.updates \o own

\* <select onChange={(e) => setSelectedDb(e.target.value)}> and its render
SelectDbIn(a, db, withWaiting) ==
    [a EXCEPT
       !.selectedDb = db,
       !.history = RenderedHistory(a, <<>>, withWaiting),
       !.updates = WaitingAfter(a, <<>>, withWaiting),
       !.effects = EffectsOfCommit(TRUE, db, RenderedHistory(a, <<>>, withWaiting)),
       !.overlapped = a.overlapped \/ a.updates # <<>>]

SelectDb ==
    /\ fn = "App"
    /\ app.effects = <<>>
    /\ Len(app.updates) < MaxWaiting
    /\ \E db \in Databases \ {app.selectedDb}, withWaiting \in BOOLEAN :
          app' = SelectDbIn(app, db, withWaiting)
    /\ UNCHANGED <<fn, args, ret>>

\* addToHistory(query) of handleSubmit and its render
AddToHistoryIn(a, withWaiting) ==
    [a EXCEPT
       !.history = RenderedHistory(a, <<AddEntry(Entry(a.selectedDb))>>, withWaiting),
       !.updates = WaitingAfter(a, <<AddEntry(Entry(a.selectedDb))>>, withWaiting),
       !.effects = EffectsOfCommit(FALSE, a.selectedDb,
                      RenderedHistory(a, <<AddEntry(Entry(a.selectedDb))>>, withWaiting)),
       !.asked = a.asked + 1]

AddToHistory ==
    /\ fn = "App"
    /\ app.effects = <<>>
    /\ app.asked < MaxAsked
    /\ Len(app.updates) < MaxWaiting
    /\ \E withWaiting \in BOOLEAN : app' = AddToHistoryIn(app, withWaiting)
    /\ UNCHANGED <<fn, args, ret>>

NextHistory == RunEffects \/ RenderHistory \/ SelectDb \/ AddToHistory

SpecHistory == InitHistory /\ [][NextHistory]_vars

\* nothing waits: no effect to run and no setHistory to render
Settled == app.effects = <<>> /\ app.updates = <<>>

StoredHistory(db) == parseOrEmpty(app.localStorage[historyKey(db)])

OwnEntriesOnly(db, history) ==
    \A i \in 1..Len(history) : history[i] = Entry(db)

SavedEntryKept(db, history) ==
    \E i \in 1..Len(history) : history[i] = Entry(db)

EachKeyHoldsItsOwn ==
    \A db \in Databases :
        /\ OwnEntriesOnly(db, StoredHistory(db))
        /\ SavedEntryKept(db, StoredHistory(db))

\* C29: once the effects of the database switches have settled, the
\* history stored under the key of each database holds the entries of
\* that database only, and the entry saved for it earlier is still there.
C29_EachKeyHoldsItsOwnHistory ==
    (fn = "App" /\ Settled) => EachKeyHoldsItsOwn

\* when every database was selected with no setHistory waiting, each key
\* holds its own history once the effects have settled
SettledAfterSeparateSwitches ==
    (fn = "App" /\ Settled /\ ~app.overlapped) => EachKeyHoldsItsOwn

(***************************************************************************)
(* The App component: the conversation and sendFeedback                    *)
(*                                                                         *)
(* app holds the conversation and the calls of sendFeedback made so far,   *)
(* each with its position: "post" before axios.post is called, "await"     *)
(* while the request is on its way, "returned" after the POST succeeded    *)
(* and "caught" after the catch block ran.  The id of a message is its     *)
(* place in the conversation: uid() gives every message an id of its own.  *)
(***************************************************************************)
MaxMessages == 3
MaxSends == 3
Ratings == {1, -1}

UserMessage(id) == [id |-> id, type |-> "user", feedback |-> Undefined]
BotMessage(id) == [id |-> id, type |-> "bot", feedback |-> Null]

\* rating === 1 ? 'up' : 'down'
MarkOf(rating) == IF rating = 1 THEN Str("up") ELSE Str("down")

\* prev.map(m => m.id === messageId ? { ...m, feedback } : m)
WithFeedback(prev, messageId, feedback) ==
    [i \in 1..Len(prev) |->
        IF prev[i].id = messageId THEN [prev[i] EXCEPT !.feedback = feedback]
        ELSE prev[i]]

MarkFeedback(prev, messageId, rating) ==
    WithFeedback(prev, messageId, MarkOf(rating))

\* a catch block that leaves the conversation as it is
LeaveFeedback(prev, messageId) == prev

ResetFeedback(prev, messageId) == WithFeedback(prev, messageId, Null)

\* <FeedbackButtons disabled={!!msg.feedback} ...> in the row of a bot message
ButtonsEnabled(msg) == msg.type = "bot" /\ msg.feedback = Null

InitFeedback ==
    /\ fn = "sendFeedback"
    /\ args = <<>>
    /\ ret = <<>>
    /\ app = [conversation |-> <<>>, calls |-> <<>>]

\* handleSubmit puts the question into the conversation
SubmitQuestion ==
    /\ fn = "sendFeedback"
    /\ Len(app.conversation) < MaxMessages
    /\ app' = [app EXCEPT !.conversation =
                 Append(@, UserMessage(Len(app.conversation) + 1))]
    /\ UNCHANGED <<fn, args, ret>>

\* and the reply of the server, when it comes, follows with feedback: null
ReceiveReply ==
    /\ fn = "sendFeedback"
    /\ Len(app.conversation) < MaxMessages
    /\ app' = [app EXCEPT !.conversation =
                 Append(@, BotMessage(Len(app.conversation) + 1))]
    /\ UNCHANGED <<fn, args, ret>>

\* a click on an enabled button: sendFeedback(msg.id, rating) runs up to
\* the call of axios.post
CallSendFeedback ==
    /\ fn = "sendFeedback"
    /\ Len(app.calls) < MaxSends
    /\ \E i \in 1..Len(app.conversation), rating \in Ratings :
          /\ ButtonsEnabled(app.conversation[i])
          /\ app' = [app EXCEPT
                       !.conversation = MarkFeedback(@, app.conversation[i].id, rating),
                       !.calls = Append(@, [messageId |-> app.conversation[i].id,
                                            rating |-> rating, pc |-> "post"])]
    /\ UNCHANGED <<fn, args, ret>>

\* axios.post(`${API_BASE}/feedback`, ...) sends the request
PostFeedback ==
    /\ fn = "sendFeedback"
    /\ \E c \in 1..Len(app.calls) :
          /\ app.calls[c].pc = "post"
          /\ app' = [app EXCEPT !.calls[c].pc = "await"]
    /\ UNCHANGED <<fn, args, ret>>

\* the POST succeeds: the await returns and so does sendFeedback
PostSucceeds ==
    /\ fn = "sendFeedback"
    /\ \E c \in 1..Len(app.calls) :
          /\ app.calls[c].pc = "await"
          /\ app' = [app EXCEPT !.calls[c].pc = "returned"]
    /\ UNCHANGED <<fn, args, ret>>

\* the POST fails: the catch block runs
PostFails ==
    /\ fn = "sendFeedback"
    /\ \E c \in 1..Len(app.calls) :
          /\ app.calls[c].pc = "await"
          /\ app' = [app EXCEPT
                       !.conversation = ResetFeedback(@, app.calls[c].messageId),
                       !.calls[c].pc = "caught"]
    /\ UNCHANGED <<fn, args, ret>>

NextFeedback ==
    \/ SubmitQuestion \/ ReceiveReply \/ CallSendFeedback
    \/ PostFeedback \/ PostSucceeds \/ PostFails

SpecFeedback == InitFeedback /\ [][NextFeedback]_vars

\* the calls on a message whose POST has not failed
StandingCalls(messageId) ==
    {c \in 1..Len(app.calls) :
        app.calls[c].messageId = messageId /\ app.calls[c].pc # "caught"}

\* what the feedback of a message is to be: the mark of the call on it that
\* has not failed, from before its request is sent on, and what the message
\* came with when there is none
FeedbackDue(msg) ==
    IF StandingCalls(msg.id) = {}
    THEN (IF msg.type = "bot" THEN Null ELSE Undefined)
    ELSE MarkOf(app.calls[CHOOSE c \in StandingCalls(msg.id) : TRUE].rating)

\* C30: a message is marked 'up' or 'down' from before the request of
\* sendFeedback is sent and for as long as its POST has not failed, its
\* feedback is null again once the POST has failed, and no call changes the
\* feedback of a message other than its own.
C30_MarkedUntilPostFails ==
    fn = "sendFeedback" =>
        \A i \in 1..Len(app.conversation) :
            /\ Cardinality(StandingCalls(app.conversation[i].id)) <= 1
            /\ app.conversation[i].feedback = FeedbackDue(app.conversation[i])

\* one POST failed and its message has null again, one succeeded and its
\* message keeps its mark, and one is marked with its request not yet sent
C30_Witness ==
    /\ fn = "sendFeedback"
    /\ \E a, b, c \in 1..Len(app.calls) :
          /\ app.calls[a].pc = "caught"
          /\ StandingCalls(app.calls[a].messageId) = {}
          /\ app.conversation[app.calls[a].messageId].feedback = Null
          /\ app.calls[b].pc = "returned"
          /\ app.conversation[app.calls[b].messageId].feedback = MarkOf(app.calls[b].rating)
          /\ app.calls[c].pc = "post"
          /\ app.conversation[app.calls[c].messageId].feedback = MarkOf(app.calls[c].rating)

(***************************************************************************)
(* All calls together                                                      *)
(***************************************************************************)
Init ==
    InitNumber \/ InitMonth \/ InitResolve \/ InitPivot \/ InitRender
      \/ InitSession \/ InitFrame \/ InitTimeLike \/ InitHistory
      \/ InitFeedback

Next ==
    \/ CallToNumber \/ CallMonthIndex \/ CallResolveAxes \/ CallPivotData
    \/ CallRenderChart \/ CallInSession
    \/ CallPivotDataOfRecords \/ CallResolveAxesOfRecords
    \/ CallIsTimeLikeAxis
    \/ RunEffects
    \/ RenderHistory
    \/ SelectDb
    \/ AddToHistory
    \/ SubmitQuestion
    \/ ReceiveReply
    \/ CallSendFeedback
    \/ PostFeedback
    \/ PostSucceeds
    \/ PostFails

Spec == Init /\ [][Next]_vars

====
